---------------------------- MODULE Spec2Model ----------------------------
(***************************************************************************)
(* A model of the evidence-grounded response pipeline of DebateAgent:      *)
(*   - the Reference Validator (models.py, Reference.validate_url_...),    *)
(*   - the Evidence Gatherer (evidence.py, gather_evidence and the two     *)
(*     functions it calls),                                                *)
(*   - the construction of the two reference-bearing responses             *)
(*     (models.py) and their rendering by main (main.py).                  *)
(* Three specifications share the variables: ValidatorSpec, GatherSpec and *)
(* Spec (construction and rendering).                                      *)
(***************************************************************************)
EXTENDS Integers, Sequences, FiniteSets

VARIABLES
    \* ---- one run of Reference.validate_url_returns_200 ----
    vurl,            \* the URL under validation ("" before any run)
    requests,        \* the HTTP requests the run issued, in order
    verdict,         \* "none" | "accepted" | "rejected"
    cause,           \* "none" | "status" (ValueError on the status) | "request_error"
    \* ---- one run of gather_evidence / summarize_sources ----
    gpc,             \* "idle" | "searching" | "summarizing" | "returned" | "raised"
    motion, side, tavily_api_key,
    calls,           \* the provider calls issued so far, in order
    search_results,  \* what search_web_for_evidence returned (URLs of the SearchResults)
    evidence,        \* the GatheredEvidence returned (NoEvidence before the return)
    \* ---- one run of main: generate_counter, construction, rendering ----
    pc,              \* "start" | "constructing" | "constructed" | "invalid" |
                     \* "returned" | "raised" | "rendered" | "aborted"
    kind,            \* "referenced_paragraphs" | "evidence_based" | "none"
    candidate,       \* the payload the completion provider returned
    dead,            \* urls the payload cites that are dead links for the whole
                     \* run (any other url may answer in any way)
    verdicts,        \* the validator's verdict for each reference validated so far
    result,          \* the constructed response (NoResult when none)
    error,           \* the error construction raised ("none" when none)
    output           \* what main printed: one item per rendered paragraph, or
                     \* the [error] line

vvars == <<vurl, requests, verdict, cause>>
gvars == <<gpc, motion, side, tavily_api_key, calls, search_results, evidence>>
rvars == <<pc, kind, candidate, dead, verdicts, result, error, output>>
vars == <<vvars, gvars, rvars>>

\* ------------------------------------------------------------------ bounds
\* Most references one candidate response carries, over all its paragraphs.
MaxCitations == 2
\* Most paragraphs of one candidate response.
MaxParagraphs == 3
\* Most SearchResults in one search response, and most SourceSummary in one
\* completion output.
MaxSources == 2

\* ------------------------------------------------------------------ values
\* URLs as the providers write them.  The second differs from the first only in
\* the case of its host and the missing path.
RawUrls == {"http://a.org/", "http://A.org", "http://b.org/", "http://c.org/"}

\* pydantic's AnyUrl: the host is lower-cased and an empty path becomes "/";
\* str() of the parsed value gives that normalised text.
AnyUrl(u) == IF u = "http://A.org" THEN "http://a.org/" ELSE u

NoneValue == "<None>"

\* What the HTTP fetcher answers: a response with a status code, or an
\* httpx.RequestError (timeout, DNS, connection refused).
Response(s) == [kind |-> "response", status_code |-> s]
RequestError == [kind |-> "RequestError", status_code |-> 0]
StatusCodes == {200, 304, 400, 401, 403, 404, 410, 500}
Outcomes == {Response(s) : s \in StatusCodes} \cup {RequestError}

Request(m, o) == [method |-> m, outcome |-> o]

\* A dead link is a url whose resource is missing or whose server fails or
\* cannot be reached, whenever it is asked: a HEAD is never answered below 400
\* and a GET is answered 400, 404, 410, 500 or not at all.
DeadHeadOutcomes ==
    {o \in Outcomes : o.kind = "RequestError" \/ o.status_code >= 400}
DeadGetOutcomes ==
    {o \in Outcomes : o.kind = "RequestError" \/ o.status_code \in {400, 404, 410, 500}}

\* The answers <<to the HEAD, to a GET>> the fetcher may give for url, asked
\* anew at each validation, when the urls in deadUrls are known dead links.
\* Any other url may be answered in any way, and differently each time.
FetcherAnswers(url, deadUrls) ==
    IF url \in deadUrls
    THEN DeadHeadOutcomes \X DeadGetOutcomes
    ELSE Outcomes \X Outcomes

\* ------------------------------------------------- the Reference Validator
\* A variant that lacks the exemption of 401 and 403.
StatusRejectedNoExemption(status_code) == status_code >= 400

\* The status codes the validator raises ValueError on.
StatusRejected(status_code) ==
    \/ status_code \in {404, 410}
    \/ status_code >= 400 /\ status_code \notin {401, 403}

\* A variant whose threshold is off by one.
NeedsGetAbove400(head) == head.status_code > 400

\* Whether the HEAD response makes the validator issue the GET.
NeedsGet(head) == head.status_code >= 400

\* Reference.validate_url_returns_200 on url, where the fetcher answers the
\* HEAD with head and a GET (if one is issued) with get: the requests issued
\* and whether the validator returns the value or raises ValueError.
validate_url_returns_200(url, head, get) ==
    LET headReq == <<Request("HEAD", head)>> IN
    IF head.kind = "RequestError"
    THEN [requests |-> headReq, verdict |-> "rejected", cause |-> "request_error"]
    ELSE IF NeedsGet(head)
         THEN LET reqs == Append(headReq, Request("GET", get)) IN
              IF get.kind = "RequestError"
              THEN [requests |-> reqs, verdict |-> "rejected", cause |-> "request_error"]
              ELSE IF StatusRejected(get.status_code)
                   THEN [requests |-> reqs, verdict |-> "rejected", cause |-> "status"]
                   ELSE [requests |-> reqs, verdict |-> "accepted", cause |-> "none"]
         ELSE IF StatusRejected(head.status_code)
              THEN [requests |-> headReq, verdict |-> "rejected", cause |-> "status"]
              ELSE [requests |-> headReq, verdict |-> "accepted", cause |-> "none"]

\* ------------------------------------------------------ idle components
VIdle == vurl = "" /\ requests = <<>> /\ verdict = "none" /\ cause = "none"

NoEvidence == [returned |-> FALSE, query_used |-> "", sources |-> <<>>]

GIdle ==
    /\ gpc = "idle" /\ motion = "" /\ side = "" /\ tavily_api_key = NoneValue
    /\ calls = <<>> /\ search_results = <<>> /\ evidence = NoEvidence

NoResult == [constructed |-> FALSE, paragraphs |-> <<>>]

RIdle ==
    /\ pc = "start" /\ kind = "none" /\ candidate = <<>> /\ dead = {}
    /\ verdicts = <<>>
    /\ result = NoResult /\ error = "none" /\ output = <<>>

\* --------------------------------------------------- ValidatorSpec
\* One Reference is constructed from url: the field validator runs once.
ValidateUrl ==
    \E url \in RawUrls, head \in Outcomes, get \in Outcomes :
        LET r == validate_url_returns_200(AnyUrl(url), head, get) IN
        /\ vurl' = AnyUrl(url)
        /\ requests' = r.requests
        /\ verdict' = r.verdict
        /\ cause' = r.cause
        /\ UNCHANGED <<gvars, rvars>>

ValidatorInit == VIdle /\ GIdle /\ RIdle
ValidatorNext == ValidateUrl
ValidatorSpec == ValidatorInit /\ [][ValidatorNext]_vars


\* ------------------------------------------------------- Evidence Gatherer
Motions == {"Social media does more harm than good", "Homework should be banned"}
Sides == {"pro", "con"}
\* The search credential: absent, empty, or set.
Credentials == {NoneValue, "", "tvly-key"}

\* A variant that tests only for None.
TruthyNotNone(s) == s # NoneValue

\* Python's truth value of an Optional[str].
Truthy(s) == s # NoneValue /\ s # ""

\* Sequences over S of length at most n.
SeqsUpTo(S, n) == UNION {[1..k -> S] : k \in 0..n}

\* The query search_web_for_evidence submits to the search provider.
SearchQuery(m, s) ==
    IF s = "pro"
    THEN "arguments supporting: " \o m \o " evidence research studies"
    ELSE "arguments against: " \o m \o " evidence research studies criticism"

\* The local `query` of gather_evidence, recorded as query_used.
GatherQuery(m, s) ==
    IF s = "pro"
    THEN "arguments supporting: " \o m
    ELSE "arguments against: " \o m

\* A provider call: what was asked and, once the provider has answered, the
\* answer (the urls of the items it returned).
SearchCall(q) ==
    [provider |-> "search", query |-> q, answered |-> FALSE, answer |-> <<>>]
CompletionCall ==
    [provider |-> "completion", query |-> "", answered |-> FALSE, answer |-> <<>>]

\* The log once the provider has answered the last call with a.
Answered(log, a) ==
    [log EXCEPT ![Len(log)] = [@ EXCEPT !.answered = TRUE, !.answer = a]]

\* A variant that also takes a single result for none.
NoSearchResultsOrOne(results) == Len(results) <= 1

\* gather_evidence's test of the list search_web_for_evidence returned.
NoSearchResults(results) == results = <<>>

GatheredEvidence(q, srcs) == [returned |-> TRUE, query_used |-> q, sources |-> srcs]

\* summarize_sources short-circuits on an empty list and otherwise issues one
\* structured-output completion request.
SummarizerCallsProvider(results) == results # <<>>

\* What summarize_sources returns when the completion provider answers with
\* completion_sources: the provider's list, as it is.
summarize_sources(results, completion_sources) ==
    IF SummarizerCallsProvider(results) THEN completion_sources ELSE <<>>

\* gather_evidence is called.  Without a credential it returns at once; with
\* one it calls search_web_for_evidence, which submits its query.
GatherEvidence ==
    /\ gpc = "idle"
    /\ \E m \in Motions, s \in Sides, k \in Credentials :
        /\ motion' = m
        /\ side' = s
        /\ tavily_api_key' = k
        /\ IF ~Truthy(k)
           THEN /\ evidence' = GatheredEvidence("", <<>>)
                /\ gpc' = "returned"
                /\ calls' = calls
           ELSE /\ calls' = Append(calls, SearchCall(SearchQuery(m, s)))
                /\ gpc' = "searching"
                /\ evidence' = evidence
    /\ UNCHANGED <<search_results, vvars, rvars>>

\* The search provider answers.  gather_evidence returns on an empty list and
\* otherwise calls summarize_sources, which issues the completion request.
SearchReturns ==
    /\ gpc = "searching"
    /\ \E rs \in SeqsUpTo(RawUrls, MaxSources) :
        /\ search_results' = rs
        /\ IF NoSearchResults(rs)
           THEN /\ evidence' = GatheredEvidence(GatherQuery(motion, side), <<>>)
                /\ gpc' = "returned"
                /\ calls' = Answered(calls, rs)
           ELSE IF SummarizerCallsProvider(rs)
           THEN /\ calls' = Append(Answered(calls, rs), CompletionCall)
                /\ gpc' = "summarizing"
                /\ evidence' = evidence
           ELSE /\ evidence' = GatheredEvidence(GatherQuery(motion, side),
                                                summarize_sources(rs, <<>>))
                /\ gpc' = "returned"
                /\ calls' = Answered(calls, rs)
    /\ UNCHANGED <<motion, side, tavily_api_key, vvars, rvars>>

\* The search provider raises: the error propagates out of gather_evidence.
SearchFails ==
    /\ gpc = "searching"
    /\ gpc' = "raised"
    /\ UNCHANGED <<motion, side, tavily_api_key, calls, search_results, evidence,
                   vvars, rvars>>

\* The completion provider answers with a schema-valid list of summaries, whose
\* urls are whatever the provider wrote.
SummarizeReturns ==
    /\ gpc = "summarizing"
    /\ \E out \in SeqsUpTo(RawUrls, MaxSources) :
        /\ evidence' = GatheredEvidence(GatherQuery(motion, side),
                                        summarize_sources(search_results, out))
        /\ calls' = Answered(calls, out)
        /\ gpc' = "returned"
    /\ UNCHANGED <<motion, side, tavily_api_key, search_results, vvars, rvars>>

\* The completion provider raises after its retries: the error propagates.
SummarizeFails ==
    /\ gpc = "summarizing"
    /\ gpc' = "raised"
    /\ UNCHANGED <<motion, side, tavily_api_key, calls, search_results, evidence,
                   vvars, rvars>>

GatherInit == VIdle /\ GIdle /\ RIdle
GatherNext ==
    \/ GatherEvidence
    \/ SearchReturns
    \/ SearchFails
    \/ SummarizeReturns
    \/ SummarizeFails
GatherSpec == GatherInit /\ [][GatherNext]_vars


\* ------------------------------------------------ responses with references
\* A reference as the completion provider writes it.  A Reference has no
\* supporting_claim field; an EvidenceBasedReference requires one.
Titles == {NoneValue, "Title"}
SupportingClaims == {"claim one", "claim two"}
Kinds == {"referenced_paragraphs", "evidence_based"}

RawReferences(k) ==
    IF k = "referenced_paragraphs"
    THEN [url : RawUrls, title : Titles, supporting_claim : {NoneValue}]
    ELSE [url : RawUrls, title : {NoneValue}, supporting_claim : SupportingClaims]

\* The payloads of at most p paragraphs and n references in all; a paragraph is
\* its list of references (no check reads its text).
RECURSIVE Payloads(_, _, _)
Payloads(R, p, n) ==
    IF p = 0 THEN {<<>>}
    ELSE {<<>>} \cup
         UNION {{<<para>> \o rest : para \in [1..k -> R], rest \in Payloads(R, p - 1, n - k)} :
                k \in 0..n}

\* All references of a list of paragraphs, in validation order.
RECURSIVE Flatten(_)
Flatten(paragraphs) ==
    IF paragraphs = <<>> THEN <<>> ELSE Head(paragraphs) \o Flatten(Tail(paragraphs))

\* The value a url field holds once parsed: an AnyUrl for Reference, the str
\* as given for EvidenceBasedReference.
ParsedReference(k, ref) ==
    IF k = "referenced_paragraphs" THEN [ref EXCEPT !.url = AnyUrl(ref.url)] ELSE ref

ParsedParagraphs(k, payload) ==
    [i \in 1..Len(payload) |->
        [j \in 1..Len(payload[i]) |-> ParsedReference(k, payload[i][j])]]

\* The inner loop of both model validators: the first url already in seen is
\* a duplicate; otherwise seen grows.
RECURSIVE ReferenceLoop(_, _)
ReferenceLoop(references, seen) ==
    IF references = <<>> THEN [error |-> "none", seen |-> seen]
    ELSE IF Head(references).url \in seen
         THEN [error |-> "duplicate_url", seen |-> seen]
         ELSE ReferenceLoop(Tail(references), seen \cup {Head(references).url})

\* A variant whose seen set starts empty in every paragraph.
RECURSIVE ReferencedParagraphsLoopPerParagraph(_, _)
ReferencedParagraphsLoopPerParagraph(paragraphs, seen) ==
    IF paragraphs = <<>> THEN "none"
    ELSE IF Head(paragraphs) = <<>> THEN "empty_references"
    ELSE LET r == ReferenceLoop(Head(paragraphs), {}) IN
         IF r.error # "none" THEN r.error
         ELSE ReferencedParagraphsLoopPerParagraph(Tail(paragraphs), {})

\* ReferencedParagraphs.ensure_unique_urls_across_paragraphs, from paragraph
\* idx on: a paragraph without references, or a url seen before, raises.
RECURSIVE ReferencedParagraphsLoop(_, _)
ReferencedParagraphsLoop(paragraphs, seen) ==
    IF paragraphs = <<>> THEN "none"
    ELSE IF Head(paragraphs) = <<>> THEN "empty_references"
    ELSE LET r == ReferenceLoop(Head(paragraphs), seen) IN
         IF r.error # "none" THEN r.error
         ELSE ReferencedParagraphsLoop(Tail(paragraphs), r.seen)

ReferencedParagraphs_ensure_unique_urls(paragraphs) ==
    ReferencedParagraphsLoop(paragraphs, {})

\* EvidenceBasedResponse.ensure_unique_urls_across_paragraphs.
RECURSIVE EvidenceBasedLoop(_, _)
EvidenceBasedLoop(paragraphs, seen) ==
    IF paragraphs = <<>> THEN "none"
    ELSE LET r == ReferenceLoop(Head(paragraphs), seen) IN
         IF r.error # "none" THEN r.error
         ELSE EvidenceBasedLoop(Tail(paragraphs), r.seen)

EvidenceBasedResponse_ensure_unique_urls(paragraphs) ==
    EvidenceBasedLoop(paragraphs, {})

\* A variant without the length constraint.
MinLengthErrorNever(paragraphs) == FALSE

\* EvidenceBasedParagraph.references has min_length=1.
MinLengthError(paragraphs) ==
    \E i \in 1..Len(paragraphs) : Len(paragraphs[i]) < 1

\* Whether a field validator of some Reference raised.
FieldError(vs) == \E i \in 1..Len(vs) : vs[i].verdict = "rejected"

\* The error pydantic raises for the payload ("none": the object is built).
\* Field errors are collected first; a model validator runs only on a payload
\* without field errors.
ConstructionError(k, paragraphs, vs) ==
    IF k = "referenced_paragraphs"
    THEN IF FieldError(vs) THEN "url_unreachable"
         ELSE ReferencedParagraphs_ensure_unique_urls(paragraphs)
    ELSE IF MinLengthError(paragraphs) THEN "min_length"
         ELSE EvidenceBasedResponse_ensure_unique_urls(paragraphs)

\* The resources the payload cites: "http://A.org" and "http://a.org/" name
\* the same one.
CitedResources(payload) ==
    {AnyUrl(Flatten(payload)[i].url) : i \in 1..Len(Flatten(payload))}

\* generate_counter issues the structured-output completion request for the
\* requested format; the provider answers with a payload.
GenerateCounter ==
    /\ pc = "start"
    /\ \E k \in Kinds :
        \E c \in Payloads(RawReferences(k), MaxParagraphs, MaxCitations) :
            \E d \in SUBSET CitedResources(c) :
                /\ kind' = k
                /\ candidate' = c
                /\ dead' = d
    /\ pc' = "constructing"
    /\ UNCHANGED <<verdicts, result, error, output, vvars, gvars>>

\* The next Reference of the payload is constructed: its url is parsed and the
\* field validator runs on it.  (An EvidenceBasedReference has no validator.)
ValidateReference ==
    /\ pc = "constructing"
    /\ kind = "referenced_paragraphs"
    /\ Len(verdicts) < Len(Flatten(candidate))
    /\ LET url == AnyUrl(Flatten(candidate)[Len(verdicts) + 1].url) IN
        \E answers \in FetcherAnswers(url, dead) :
            LET r == validate_url_returns_200(url, answers[1], answers[2]) IN
            verdicts' = Append(verdicts, [url |-> url, verdict |-> r.verdict])
    /\ UNCHANGED <<pc, kind, candidate, dead, result, error, output, vvars, gvars>>

\* Every field is validated: the model validator runs and the response object
\* exists, or the validation error is raised.
Construct ==
    /\ pc = "constructing"
    /\ kind = "referenced_paragraphs" => Len(verdicts) = Len(Flatten(candidate))
    /\ LET paragraphs == ParsedParagraphs(kind, candidate)
           e == ConstructionError(kind, paragraphs, verdicts)
       IN  /\ error' = e
           /\ IF e = "none"
              THEN /\ result' = [constructed |-> TRUE, paragraphs |-> paragraphs]
                   /\ pc' = "constructed"
              ELSE /\ result' = result
                   /\ pc' = "invalid"
    /\ UNCHANGED <<kind, candidate, dead, verdicts, output, vvars, gvars>>

\* generate_counter returns the constructed response to main.
GenerateCounterReturns ==
    /\ pc = "constructed"
    /\ pc' = "returned"
    /\ UNCHANGED <<kind, candidate, dead, verdicts, result, error, output, vvars, gvars>>

\* The validation error aborts generate_counter and reaches main.
GenerateCounterRaises ==
    /\ pc = "invalid"
    /\ pc' = "raised"
    /\ UNCHANGED <<kind, candidate, dead, verdicts, result, error, output, vvars, gvars>>

\* The line(s) main prints for one reference.
ReferenceLines(ref) ==
    IF ref.supporting_claim # NoneValue /\ ref.supporting_claim # ""
    THEN <<"- " \o ref.url, "  Claim: " \o ref.supporting_claim>>
    ELSE IF ref.title # NoneValue /\ ref.title # ""
         THEN <<"- " \o ref.title \o ": " \o ref.url>>
         ELSE <<"- " \o ref.url>>

RECURSIVE AllReferenceLines(_)
AllReferenceLines(references) ==
    IF references = <<>> THEN <<>>
    ELSE ReferenceLines(Head(references)) \o AllReferenceLines(Tail(references))

\* What main prints for one paragraph.
ParagraphBlock(references) ==
    <<"text">> \o (IF references # <<>>
                   THEN <<"References:">> \o AllReferenceLines(references)
                   ELSE <<>>)

\* What main prints for a response it was handed.
Rendered(response) ==
    [i \in 1..Len(response.paragraphs) |->
        [tag |-> "paragraph", lines |-> ParagraphBlock(response.paragraphs[i]),
         errors |-> <<>>]]

\* One error of a pydantic ValidationError as str() shows it: the message,
\* with the paragraph index (from 0) or the url it names, and input_value, a
\* shortened repr of the input that failed.
ErrorEntry(msg, idx, url, input) ==
    [message |-> msg, idx |-> idx, url |-> url, input_value |-> input]
PayloadInput(payload) == [type |-> "dict", payload |-> payload, url |-> ""]
UrlInput(url) == [type |-> "str", payload |-> <<>>, url |-> url]
ListInput == [type |-> "list", payload |-> <<>>, url |-> ""]

\* The errors of the field validators that rejected, from reference i on.
RECURSIVE UrlErrors(_, _, _)
UrlErrors(vs, flat, i) ==
    IF i > Len(vs) THEN <<>>
    ELSE (IF vs[i].verdict = "rejected"
          THEN <<ErrorEntry("URL returned status / Failed to reach URL", -1,
                            vs[i].url, UrlInput(flat[i].url))>>
          ELSE <<>>) \o UrlErrors(vs, flat, i + 1)

\* The errors of the min_length constraint, from paragraph i on.
RECURSIVE LengthErrors(_, _)
LengthErrors(payload, i) ==
    IF i > Len(payload) THEN <<>>
    ELSE (IF Len(payload[i]) < 1
          THEN <<ErrorEntry("List should have at least 1 item", i - 1, "", ListInput)>>
          ELSE <<>>) \o LengthErrors(payload, i + 1)

\* The url the duplicate error names: the first one the loop meets again.
DuplicateUrl(paragraphs) ==
    LET flat == Flatten(paragraphs)
        IsDup(b) == \E a \in 1..(b - 1) : flat[a].url = flat[b].url
        first == CHOOSE b \in 1..Len(flat) :
                     IsDup(b) /\ \A c \in 1..(b - 1) : ~IsDup(c)
    IN  flat[first].url

\* The index (from 0) the empty-references error names.
FirstEmptyIdx(paragraphs) ==
    (CHOOSE i \in 1..Len(paragraphs) :
        paragraphs[i] = <<>> /\ \A j \in 1..(i - 1) : paragraphs[j] # <<>>) - 1

\* The errors of the ValidationError that construction raised with error e.
\* pydantic lists every failed field; a model validator raises one error.
ValidationErrors(k, payload, vs, e) ==
    LET paragraphs == ParsedParagraphs(k, payload) IN
    IF e = "url_unreachable" THEN UrlErrors(vs, Flatten(payload), 1)
    ELSE IF e = "min_length" THEN LengthErrors(payload, 1)
    ELSE IF e = "empty_references"
    THEN <<ErrorEntry("references must not be empty", FirstEmptyIdx(paragraphs),
                      "", PayloadInput(payload))>>
    ELSE <<ErrorEntry("Duplicate reference URL across paragraphs", -1,
                      DuplicateUrl(paragraphs), PayloadInput(payload))>>

\* main prints the paragraphs of the response generate_counter returned.
MainRender ==
    /\ pc = "returned"
    /\ output' = Rendered(result)
    /\ pc' = "rendered"
    /\ UNCHANGED <<kind, candidate, dead, verdicts, result, error, vvars, gvars>>

\* main's except clause: "[error]" and str(e) are printed and the error is
\* raised again; the rendering code is not reached.
MainError ==
    /\ pc = "raised"
    /\ output' = Append(output,
                        [tag |-> "error", lines |-> <<"[error]">>,
                         errors |-> ValidationErrors(kind, candidate, verdicts, error)])
    /\ pc' = "aborted"
    /\ UNCHANGED <<kind, candidate, dead, verdicts, result, error, vvars, gvars>>

Init == VIdle /\ GIdle /\ RIdle
Next ==
    \/ GenerateCounter
    \/ ValidateReference
    \/ Construct
    \/ GenerateCounterReturns
    \/ GenerateCounterRaises
    \/ MainRender
    \/ MainError
Spec == Init /\ [][Next]_vars


\* ================================================================ claims
\* ---------------------------------------------------------- ValidatorSpec
\* The response the validator classifies: the GET's when one was issued,
\* otherwise the HEAD's.
Classified == requests[Len(requests)].outcome

\* Every request of the run was answered with status s.
AlwaysAnswers(s) == \A i \in 1..Len(requests) : requests[i].outcome = Response(s)

\* C3: for every combination of HEAD and GET outcome the verdict follows the
\* table on the status of the classified response: 404 or 410 is rejected, any
\* other status >= 400 except 401 and 403 is rejected, 401 and 403 are
\* accepted, a status < 400 is accepted, a request failure is rejected; a URL
\* that answers 404 is rejected and one that answers 403 or 200 is accepted.
C3_VerdictTable ==
    verdict # "none" =>
        /\ Classified.kind = "RequestError" =>
               verdict = "rejected" /\ cause = "request_error"
        /\ Classified.kind = "response" =>
               LET sc == Classified.status_code IN
               /\ sc \in {404, 410} => verdict = "rejected" /\ cause = "status"
               /\ (sc >= 400 /\ sc \notin {401, 403, 404, 410}) =>
                      verdict = "rejected" /\ cause = "status"
               /\ sc \in {401, 403} => verdict = "accepted"
               /\ sc < 400 => verdict = "accepted"
        /\ AlwaysAnswers(404) => verdict = "rejected"
        /\ AlwaysAnswers(403) => verdict = "accepted"
        /\ AlwaysAnswers(200) => verdict = "accepted"

\* A URL that answers 403 to the HEAD and to the GET was accepted.
C3_Witness ==
    /\ verdict = "accepted"
    /\ Len(requests) = 2
    /\ AlwaysAnswers(403)

\* C9: a validation issues one HEAD first, then one GET exactly when the HEAD
\* was answered with a status >= 400, never more than two requests and none
\* after a request failure, and it ends accepted or rejected.
C9_Escalation ==
    verdict # "none" =>
        /\ Len(requests) \in {1, 2}
        /\ requests[1].method = "HEAD"
        /\ Len(requests) = 2 <=>
               /\ requests[1].outcome.kind = "response"
               /\ requests[1].outcome.status_code >= 400
        /\ Len(requests) = 2 => requests[2].method = "GET"
        /\ \A i \in 1..Len(requests) :
               requests[i].outcome.kind = "RequestError" => i = Len(requests)
        /\ verdict \in {"accepted", "rejected"}

\* The HEAD was answered 400, the GET was issued and failed at network level.
C9_Witness ==
    /\ Len(requests) = 2
    /\ requests[1].outcome = Response(400)
    /\ requests[2].outcome = RequestError
    /\ verdict = "rejected"

\* ------------------------------------------------------------- GatherSpec
Range(seq) == {seq[i] : i \in 1..Len(seq)}
Providers(log) == [i \in 1..Len(log) |-> log[i].provider]
NoCredential == tavily_api_key \in {NoneValue, ""}

\* C6: every source gather_evidence returns carries a url of one of the
\* SearchResults that were handed to summarize_sources.
C6_UrlFidelity ==
    gpc = "returned" => Range(evidence.sources) \subseteq Range(search_results)

\* C7: called without a search credential (absent or empty), gather_evidence
\* returns query_used = "" and sources = [] and calls neither provider.
C7_GracefulDegradation ==
    (gpc # "idle" /\ NoCredential) =>
        /\ gpc = "returned"
        /\ evidence = [returned |-> TRUE, query_used |-> "", sources |-> <<>>]
        /\ calls = <<>>

\* gather_evidence has returned for an empty credential and side con.
C7_Witness ==
    /\ gpc = "returned"
    /\ tavily_api_key = ""
    /\ side = "con"

\* C8: a run that returns ended in one of three ways: no credential, no call;
\* a credential and no search result, one search call and no completion call;
\* a credential and results, one search call then one completion call whose
\* sources are returned.  The completion provider is called if and only if the
\* search returned a result, and a run fails only when a provider failed.
C8_TerminalStates ==
    /\ gpc = "returned" =>
        \/ /\ NoCredential
           /\ calls = <<>>
           /\ evidence.sources = <<>>
        \/ /\ ~NoCredential
           /\ Providers(calls) = <<"search">>
           /\ calls[1].answered /\ calls[1].answer = <<>>
           /\ evidence.sources = <<>>
        \/ /\ ~NoCredential
           /\ Providers(calls) = <<"search", "completion">>
           /\ calls[1].answered /\ calls[1].answer # <<>>
           /\ calls[2].answered /\ evidence.sources = calls[2].answer
    /\ (\E i \in 1..Len(calls) : calls[i].provider = "completion") <=>
           (calls # <<>> /\ calls[1].answered /\ calls[1].answer # <<>>)
    /\ gpc = "raised" => ~calls[Len(calls)].answered

\* A search with one result was followed by a completion call that returned no
\* source: the empty list was returned as a value.
C8_Witness ==
    /\ gpc = "returned"
    /\ Providers(calls) = <<"search", "completion">>
    /\ Len(calls[1].answer) = 1
    /\ evidence.sources = <<>>

\* C10: with a credential, the query_used of the returned evidence is the query
\* that was submitted to the search provider.
C10_QueryUsedIsSubmitted ==
    (gpc = "returned" /\ ~NoCredential) => evidence.query_used = calls[1].query

\* ------------------------------------------------------------------- Spec
\* The references of the response that was constructed, in order.
Cited == Flatten(result.paragraphs)

\* C1: in a constructed response no url is cited twice, in one paragraph or in
\* two, whatever the title or supporting_claim of the references.
C1_UniqueUrls ==
    result.constructed =>
        \A a, b \in 1..Len(Cited) : a # b => Cited[a].url # Cited[b].url

\* A ReferencedParagraphs was constructed whose one paragraph has two
\* references, with different titles.
C1_Witness ==
    /\ result.constructed
    /\ kind = "referenced_paragraphs"
    /\ Len(result.paragraphs) = 1
    /\ Len(result.paragraphs[1]) = 2
    /\ result.paragraphs[1][1].title # result.paragraphs[1][2].title

\* Every reference of the constructed response was validated and accepted.
AllChecked ==
    /\ Len(verdicts) = Len(Cited)
    /\ \A i \in 1..Len(Cited) :
           verdicts[i].url = Cited[i].url /\ verdicts[i].verdict = "accepted"

\* C2: in every constructed response of either form, each reference's url
\* was validated and accepted before the response exists; none is unchecked.
C2_AllFormsChecked == result.constructed => AllChecked

\* The payload breaks an invariant: a paragraph without references, a url
\* cited twice, or an unreachable reference (a dead link, or a url whose
\* validation was rejected).
Violation ==
    LET parsed == Flatten(ParsedParagraphs(kind, candidate)) IN
    \/ \E i \in 1..Len(candidate) : candidate[i] = <<>>
    \/ \E a, b \in 1..Len(parsed) : a # b /\ parsed[a].url = parsed[b].url
    \/ \E i \in 1..Len(parsed) : AnyUrl(parsed[i].url) \in dead
    \/ \E i \in 1..Len(verdicts) : verdicts[i].verdict = "rejected"

ConstructionOver == pc \notin {"start", "constructing"}

\* main has printed a paragraph of the payload.
ParagraphPrinted == \E i \in 1..Len(output) : output[i].tag = "paragraph"

\* C4: when a payload of either form breaks an invariant (no references in a
\* paragraph, a url cited twice, an unreachable reference), construction
\* raises, no response object exists and main prints no paragraph of it.
C4_AtomicRejection ==
    (ConstructionOver /\ Violation) =>
        /\ error # "none"
        /\ ~result.constructed
        /\ pc \in {"invalid", "raised", "aborted"}
        /\ ~ParagraphPrinted

\* C5: every paragraph of a constructed response has at least one reference.
C5_NonEmptyReferences ==
    result.constructed =>
        \A i \in 1..Len(result.paragraphs) : Len(result.paragraphs[i]) >= 1

\* An EvidenceBasedResponse of two paragraphs was constructed.
C5_Witness ==
    /\ result.constructed
    /\ kind = "evidence_based"
    /\ Len(result.paragraphs) = 2

=============================================================================
